---- MODULE Spec2Model ----
(***************************************************************************)
(* Verification model of the mistmint-discord feed bots and checkers.      *)
(*                                                                         *)
(*   SpecFeed : one scheduled run after another of a feed bot              *)
(*              (bot_comments.py, bot_free_chapters.py,                    *)
(*              bot_paid_chapters.py) over a fetched feed.                 *)
(*   SpecSend : single calls of the REST delivery functions                *)
(*              (bot_comments.post_message,                                *)
(*              new_extra_checker.send_bot_message).                       *)
(*   SpecArc  : successive runs of new_arc_checker.process_arc for one     *)
(*              novel.                                                     *)
(*   SpecState: successive runs of the state.json checkers                 *)
(*              (new_extra_checker, completed_novel_checker,               *)
(*              new_novel_checker) for one novel.                          *)
(*   SpecPure : single calls of the pure functions                         *)
(*              (sanitize_shortcode_from_title, get_duration).             *)
(*   SpecShared: runs of the comments bot and of the paid bot interleaved  *)
(*              on the one state_rss.json they share.                      *)
(***************************************************************************)
EXTENDS Integers, Sequences, FiniteSets, TLC

VARIABLES
    \* ---- feed bots ----
    cfg,        \* environment of the process: which bot, USE_UNARCHIVE, AUTO_CREATE_THREADS
    feed,       \* list(reversed(feed.entries)): the fetched feed, oldest -> newest
    stateFile,  \* state_rss.json on disk
    state,      \* the document held in memory by the running bot
    pc,         \* position of the run
    to_send,    \* unseen entries selected at the start of the run
    idx,        \* loop position in to_send (1-based)
    last,       \* checkpoint read at the start of the run
    new_last,   \* cursor advanced during the run
    log,        \* what happened to each entry processed so far in this run
    \* ---- delivery functions ----
    call,       \* the call being made: function, USE_UNARCHIVE, server script
    result,     \* what the call did: POST responses received, sleeps, outcome
    \* ---- arc tracker ----
    historyFile,  \* the novel's arc history JSON on disk
    arcRun,       \* what the last run of process_arc did
    announced,    \* labels whose NEW ARC header was delivered: once, and more than once
    headerFailed, \* whether any header send has failed so far
    moved,        \* labels whose move locked -> unlocked has been persisted
    \* ---- state.json checkers ----
    novelEntry,   \* the novel's mapping entry and the secrets of the process
    stateJson,    \* state.json on disk: its form, and the novel's entry in it
    chk,          \* what the last checker run did
    delivered     \* announcements delivered so far, per kind (counted up to 2)

feedVars == <<cfg, feed, stateFile, state, pc, to_send, idx, last, new_last, log>>
sendVars == <<call, result>>
arcVars  == <<historyFile, arcRun, announced, headerFailed, moved>>
chkVars  == <<novelEntry, stateJson, chk, delivered>>
vars     == <<cfg, feed, stateFile, state, pc, to_send, idx, last, new_last, log,
              call, result, historyFile, arcRun, announced, headerFailed, moved,
              novelEntry, stateJson, chk, delivered>>

(***************************************************************************)
(* Bounds                                                                  *)
(***************************************************************************)
MaxFeed == 2        \* entries in a fetched feed
MaxArcFeed == 1     \* entries of one novel in the free / paid feed seen by process_arc
MaxArcRepeat == 2   \* chapters of one arc a feed shows at once, each passing looks_like_arc_start
MaxExtra == 2       \* highest extra / side-story index found in a paid feed
MaxTitle == 4       \* characters in a novel title
MaxYears == 2       \* whole years of a completion duration
MaxMonths == 3      \* whole months beyond the years
MaxDays == 15       \* days beyond the months

(***************************************************************************)
(* Values                                                                  *)
(***************************************************************************)
None   == 0         \* Python None / JSON null (also: entry without guid)
Absent == -1        \* key not present in a JSON document

Min(a, b) == IF a < b THEN a ELSE b
Max(a, b) == IF a > b THEN a ELSE b
Last(s)   == s[Len(s)]

(***************************************************************************)
(* Feed entries.  A guid is unique per item (FeedEntry contract), so the   *)
(* entry at position i of the fetched feed carries guid i, or no guid.     *)
(***************************************************************************)
HOST_TARGET == "Mistmint Haven"

\* str.lower() on the host names that occur
Lower(h) ==
    CASE h = "Mistmint Haven" -> "mistmint haven"
      [] h = "OtherSite"      -> "othersite"
      [] OTHER                -> h

\* (host, novel) pairs carried by feed entries.  Novel X has a short code and
\* an X_THREAD_ID secret; novel Y has a short code but no secret; novel Z has
\* no short code anywhere (mapping, feed field, guid prefix).
EntryKinds ==
    { <<"Mistmint Haven", "X">>, <<"Mistmint Haven", "Y">>, <<"Mistmint Haven", "Z">>,
      <<"mistmint haven", "X">>, <<"OtherSite", "Y">> }

Novels == {"X", "Y", "Z"}

Entry(g, k) == [guid |-> g, host |-> k[1], novel |-> k[2]]

Feeds ==
    UNION { { f \in [1..n -> { Entry(g, k) : g \in 0..n, k \in EntryKinds }] :
                \A i \in 1..n : f[i].guid \in {None, i} } : n \in 0..MaxFeed }

\* a checkpoint whose entry has scrolled out of the feed window
GoneGuid == MaxFeed + 1

(***************************************************************************)
(* state_rss.json                                                          *)
(***************************************************************************)
FEED_KEY(bot) ==
    CASE bot = "comments" -> "comments_last_guid"
      [] bot = "paid"     -> "paid_last_guid"
      [] bot = "free"     -> "mistmint_free_last_guid"

\* the document written by the comments / paid loaders on first use, with
\* the free bot's slot and cache as they appear once the free bot has run
Doc(c, p, fl, mf, th) ==
    [comments_last_guid |-> c, paid_last_guid |-> p, free_last_guid |-> fl,
     mistmint_free_last_guid |-> mf, threads |-> th]

NoThreads == [n \in Novels |-> None]

\* thread ids
EnvTid     == 1     \* value of X_THREAD_ID
CreatedTid == 2     \* id of a thread created by seed.create_thread
CachedTid  == 3     \* id found in state["threads"] from an earlier run

\* bot_comments.load_state / bot_paid_chapters.load_state on a valid file
load_state(file) == file

\* a migration that moves the legacy key instead of copying it
load_state_free_moving(file) ==
    IF file.mistmint_free_last_guid = Absent /\ file.free_last_guid # Absent
    THEN [file EXCEPT !.mistmint_free_last_guid = file.free_last_guid,
                      !.free_last_guid = Absent]
    ELSE file

\* bot_free_chapters.load_state on a valid file: legacy-key migration
load_state_free(file) ==
    IF file.mistmint_free_last_guid = Absent /\ file.free_last_guid # Absent
    THEN [file EXCEPT !.mistmint_free_last_guid = file.free_last_guid]
    ELSE file

(***************************************************************************)
(* Entry Filter: host filter and checkpoint slicing                        *)
(***************************************************************************)
\* e.get("guid") or e.get("id")   /   _guid(e)
Guid(e) == e.guid

\* bot_paid_chapters._is_mistmint: case-insensitive
_is_mistmint(e) == Lower(e.host) = Lower(HOST_TARGET)

\* bot_free_chapters: e.get("host","").strip() == MISTMINT_HOST_NAME
IsMistmintExact(e) == e.host = HOST_TARGET

FilterSeq(s, P(_)) ==
    LET F[i \in 0..Len(s)] ==
            IF i = 0 THEN <<>>
            ELSE IF P(s[i]) THEN Append(F[i-1], s[i]) ELSE F[i-1]
    IN F[Len(s)]

\* the entry list without list(reversed(...)): newest first, as the feed
\* document lists its items
EntriesNewestFirst(bot, f) ==
    LET fr == [i \in 1..Len(f) |-> f[Len(f) + 1 - i]] IN
    CASE bot = "comments" -> fr
      [] bot = "free"     -> FilterSeq(fr, IsMistmintExact)
      [] bot = "paid"     -> FilterSeq(fr, _is_mistmint)

\* the entry list each bot slices: oldest first (the variable feed holds the
\* fetched items oldest first, as list(reversed(feed.entries)) yields them)
Entries(bot, f) ==
    CASE bot = "comments" -> f
      [] bot = "free"     -> FilterSeq(f, IsMistmintExact)
      [] bot = "paid"     -> FilterSeq(f, _is_mistmint)

Guids(entries) == [i \in 1..Len(entries) |-> Guid(entries[i])]

\* list.index(x): first position holding x
Index(s, x) == CHOOSE i \in 1..Len(s) : s[i] = x /\ \A j \in 1..(i-1) : s[j] # x

select_unseen_off_by_one(entries, ckpt) ==
    LET guids == Guids(entries) IN
    IF \E i \in 1..Len(guids) : guids[i] = ckpt
    THEN SubSeq(entries, Index(guids, ckpt), Len(entries))
    ELSE entries

\* to_send = entries[guids.index(last)+1:] if last in guids else entries
select_unseen(entries, ckpt) ==
    LET guids == Guids(entries) IN
    IF \E i \in 1..Len(guids) : guids[i] = ckpt
    THEN SubSeq(entries, Index(guids, ckpt) + 1, Len(entries))
    ELSE entries

(***************************************************************************)
(* Delivery Client over REST: bot_comments.post_message and                *)
(* new_extra_checker.send_bot_message.                                     *)
(*                                                                         *)
(* A server script lists the answers the server gives to the successive   *)
(* POSTs of one call, and the outcome of the remediation requests.        *)
(***************************************************************************)
RATE_CAP     == 5   \* seconds: the cap on a rate-limit sleep
DEFAULT_WAIT == 1   \* seconds slept when the server advises nothing

\* waits (whole seconds) a 429 may advise: below, at and above the cap
AdvisedWaits == {0, 4, 5, 6}

\* an answer to a POST.  status 0: requests raised ConnectionError / Timeout.
\* archiv: "archiv" occurs in the error message.  access: the error code is
\* 50001 / 50013 or the message says "missing access".  hdr / body: the
\* X-RateLimit-Reset-After header and the retry_after body field.
Resp(st, ar, ac, h, b) == [status |-> st, archiv |-> ar, access |-> ac, hdr |-> h, body |-> b]

R200  == Resp(200, FALSE, FALSE, Absent, Absent)
R500  == Resp(500, FALSE, FALSE, Absent, Absent)
RConn == Resp(0,   FALSE, FALSE, Absent, Absent)
RArchived == Resp(400, TRUE, FALSE, Absent, Absent)
RMissingAccess == Resp(403, FALSE, TRUE, Absent, Absent)
R429(h, b) == Resp(429, FALSE, FALSE, h, b)

Responses ==
    {R200, R500, RConn}
    \cup { Resp(st, ar, ac, Absent, Absent) : st \in {400, 403}, ar \in BOOLEAN, ac \in BOOLEAN }
    \cup { R429(h, b) : h \in AdvisedWaits \cup {Absent}, b \in AdvisedWaits \cup {Absent} }

\* requests.Response.ok
Ok(r) == r.status # 0 /\ r.status < 400

Script(rs, j, p) == [resp |-> rs, join |-> j, patch |-> p]

Outcome(posts, slept, fixes, how) ==
    [posts |-> posts, slept |-> slept, fixes |-> fixes, outcome |-> how]

\* what a call reports to its caller
Returned(r) == IF r.status = 0 THEN "exception"
               ELSE IF Ok(r) THEN "ok" ELSE "http_error"

NeedsBackoffAlways(r) == r.status # 0

\* if r.status_code == 429
NeedsBackoff(r) == r.status = 429

BackoffPostUncapped(r) ==
    LET wait == IF r.hdr # Absent THEN r.hdr
                ELSE IF r.body # Absent THEN r.body ELSE DEFAULT_WAIT
    IN  Max(wait, 0)

\* post_message, 429 branch: header first, body as fallback, 1.0 by default;
\* time.sleep(min(max(wait, 0.0), 5.0))
BackoffPost(r) ==
    LET wait == IF r.hdr # Absent THEN r.hdr
                ELSE IF r.body # Absent THEN r.body ELSE DEFAULT_WAIT
    IN  Min(Max(wait, 0), RATE_CAP)

\* send_bot_message, 429 branch: body field only; time.sleep(min(wait, 5.0))
BackoffBot(r) ==
    LET wait == IF r.body # Absent THEN r.body ELSE DEFAULT_WAIT
    IN  Min(wait, RATE_CAP)

\* the rate-limit step shared by both functions: one sleep, one more POST
RateStep(posts, fixes, s, Sleep(_)) ==
    LET r == Last(posts) IN
    IF r.status = 0 THEN Outcome(posts, <<>>, fixes, "exception")
    ELSE IF NeedsBackoff(r)
    THEN LET again == Append(posts, s.resp[Len(posts) + 1])
         IN  Outcome(again, <<Sleep(r)>>, fixes, Returned(Last(again)))
    ELSE Outcome(posts, <<>>, fixes, Returned(r))

\* post_message, "fix once and retry" decision for a 400/403 answer:
\* <<fixed, number of remediation requests made>>
FixPost(r, s, use_unarchive) ==
    LET tryPatch == r.archiv /\ use_unarchive
        fixed1   == tryPatch /\ s.patch
        tryJoin  == ~fixed1 /\ r.access
        fixed    == fixed1 \/ (tryJoin /\ s.join)
    IN  <<fixed, (IF tryPatch THEN 1 ELSE 0) + (IF tryJoin THEN 1 ELSE 0)>>

\* bot_comments.post_message
post_message(s, use_unarchive) ==
    LET r1 == s.resp[1] IN
    IF r1.status \in {400, 403}
    THEN LET fx == FixPost(r1, s, use_unarchive)
         IN  IF fx[1] THEN RateStep(<<r1, s.resp[2]>>, fx[2], s, BackoffPost)
                      ELSE RateStep(<<r1>>, fx[2], s, BackoffPost)
    ELSE RateStep(<<r1>>, 0, s, BackoffPost)

\* new_extra_checker.send_bot_message
send_bot_message(s) ==
    LET r1 == s.resp[1] IN
    IF r1.status = 403 /\ r1.access
    THEN IF s.join THEN RateStep(<<r1, s.resp[2]>>, 1, s, BackoffBot)
                   ELSE RateStep(<<r1>>, 1, s, BackoffBot)
    ELSE RateStep(<<r1>>, 0, s, BackoffBot)

(***************************************************************************)
(* Feed bots: one run = StartRun, one step per unseen entry, FinishRun     *)
(***************************************************************************)
Cfg(b, u, a) == [bot |-> b, unarchive |-> u, autocreate |-> a]

Cfgs == { Cfg("comments", u, FALSE) : u \in BOOLEAN }
        \cup { Cfg("paid", u, FALSE) : u \in BOOLEAN }
        \cup { Cfg("free", FALSE, a) : a \in BOOLEAN }

\* documents found on disk when a run starts, the bot's slot holding ck
StartDocs(bot, ck) ==
    CASE bot = "comments" -> { Doc(ck, None, None, Absent, NoThreads) }
      [] bot = "paid"     -> { Doc(None, ck, None, Absent, NoThreads) }
      [] bot = "free"     ->
            { Doc(None, None, None, ck, th) :
                th \in {NoThreads, [NoThreads EXCEPT !["Y"] = CachedTid],
                         [NoThreads EXCEPT !["X"] = CachedTid]} }
            \cup { Doc(None, None, ck, Absent, NoThreads) }

\* answers of the server considered while a feed bot runs
FeedResponses == {R200, RArchived, RMissingAccess, R429(Absent, Absent), R500, RConn}

\* every POST of the call was answered "thread is archived"
AlwaysArchived(posts) == \A i \in 1..Len(posts) : posts[i] = RArchived

\* what one loop iteration did; thread / cached / tried (free bot): the id
\* of the thread resolve_thread returned, the cache entry it found and the
\* resolution steps it went through
LogItem(e, res, attempts, arch) ==
    [guid |-> Guid(e), res |-> res, attempts |-> attempts, archived |-> arch,
     before |-> new_last, thread |-> None, cached |-> None, tried |-> <<>>]

\* the loop moves to the next entry, or leaves the loop
Advance == /\ idx' = idx + 1
           /\ pc' = IF idx = Len(to_send) THEN "finish" ELSE "loop"

\* an exception leaves the loop: the process dies (comments) or on_ready is
\* abandoned with the client still connected (paid)
Escape(where) == /\ idx' = idx
                 /\ pc' = where

\* the start of the run with the `if not to_send: return` dropped: the client
\* logs in and on_ready runs over an empty selection
StartRunAlwaysLogin ==
    /\ pc = "idle"
    /\ LET st == IF cfg.bot = "free" THEN load_state_free(stateFile)
                 ELSE load_state(stateFile)
           ck == st[FEED_KEY(cfg.bot)]
           ts == select_unseen(Entries(cfg.bot, feed), IF ck = Absent THEN None ELSE ck)
       IN  /\ state' = st
           /\ last' = (IF ck = Absent THEN None ELSE ck)
           /\ new_last' = (IF ck = Absent THEN None ELSE ck)
           /\ to_send' = ts
           /\ idx' = 1
           /\ pc' = IF ts = <<>> THEN "finish" ELSE "loop"
    /\ log' = <<>>
    /\ UNCHANGED <<cfg, feed, stateFile>>

\* main() / send_new_entries() / send_new_paid_entries() up to the loop
StartRun ==
    /\ pc = "idle"
    /\ LET st == IF cfg.bot = "free" THEN load_state_free(stateFile)
                 ELSE load_state(stateFile)
           ck == st[FEED_KEY(cfg.bot)]
           ts == select_unseen(Entries(cfg.bot, feed), IF ck = Absent THEN None ELSE ck)
       IN  /\ state' = st
           /\ last' = (IF ck = Absent THEN None ELSE ck)
           /\ new_last' = (IF ck = Absent THEN None ELSE ck)
           /\ to_send' = ts
           /\ idx' = 1
           /\ pc' = IF ts = <<>> THEN "done" ELSE "loop"
    /\ log' = <<>>
    /\ UNCHANGED <<cfg, feed, stateFile>>

\* bot_comments.resolve_thread_id: the <SHORTCODE>_THREAD_ID secret, if set
resolve_thread_id(novel) == IF novel = "X" THEN EnvTid ELSE None

\* the cursor moved by confirmed sends only (no `new_last = guid` on a skip)
StepCursorSentOnly(e, res) ==
    IF res = "sent" THEN Guid(e) ELSE new_last

StepCursorOnAttempt(e, res) ==
    IF res \in {"sent", "failed", "raised", "skip_host_advance", "skip_route_advance"}
    THEN Guid(e) ELSE new_last

\* new_last after one loop iteration: set to the guid on a confirmed send, and
\* (comments bot) on a host / routing skip; left alone otherwise
StepCursor(e, res) ==
    IF res \in {"sent", "skip_host_advance", "skip_route_advance"} THEN Guid(e) ELSE new_last

\* what post_message can do for one entry, over every server script
PostOutcomes(use_unarchive) ==
    { post_message(Script(rs, j, p), use_unarchive) :
        rs \in [1..3 -> FeedResponses], j \in BOOLEAN, p \in BOOLEAN }
PostOutcomesPlain     == PostOutcomes(FALSE)
PostOutcomesUnarchive == PostOutcomes(TRUE)

\* bot_comments.main: one iteration of `for entry in to_send`
CommentsEntry ==
    /\ pc = "loop" /\ cfg.bot = "comments"
    /\ LET e == to_send[idx] IN
       \/ /\ e.host # HOST_TARGET
          /\ log' = Append(log, LogItem(e, "skip_host_advance", 0, FALSE))
          /\ new_last' = StepCursor(e, "skip_host_advance")
          /\ Advance
       \/ /\ e.host = HOST_TARGET
          /\ resolve_thread_id(e.novel) = None
          /\ log' = Append(log, LogItem(e, "skip_route_advance", 0, FALSE))
          /\ new_last' = StepCursor(e, "skip_route_advance")
          /\ Advance
       \/ /\ e.host = HOST_TARGET
          /\ resolve_thread_id(e.novel) # None
          /\ \E r \in (IF cfg.unarchive THEN PostOutcomesUnarchive ELSE PostOutcomesPlain) :
               LET res == CASE r.outcome = "ok"         -> "sent"
                            [] r.outcome = "http_error" -> "failed"
                            [] OTHER                    -> "raised"
               IN  /\ log' = Append(log, LogItem(e, res, Len(r.posts), AlwaysArchived(r.posts)))
                   /\ new_last' = StepCursor(e, res)
                   /\ IF res = "raised" THEN Escape("aborted") ELSE Advance
    /\ UNCHANGED <<cfg, feed, stateFile, state, to_send, last>>

\* bot_paid_chapters.ensure_thread_ready: join, and unarchive when
\* USE_UNARCHIVE=1; a plain channel is always ready
ensure_thread_ready(isThread, use_unarchive, editOk) ==
    IF isThread /\ use_unarchive THEN editOk ELSE TRUE

\* outcomes of dest.send / thread.send (discord.py)
DiscordSends == {"ok", "archived", "forbidden", "server", "neterr"}

\* HTTPException.status of a failed send; 0: not an HTTPException
SendStatus(o) ==
    CASE o = "archived"  -> 400
      [] o = "forbidden" -> 403
      [] o = "server"    -> 500
      [] OTHER           -> 0

\* bot_paid_chapters: short code and thread id for the entry's novel
find_short_code_for_entry(e) == IF e.novel = "Z" THEN "" ELSE e.novel
_thread_id_for(sc) == IF sc = "X" THEN EnvTid ELSE None

Delivery(res, attempts, arch) == [res |-> res, attempts |-> attempts, archived |-> arch]

\* bot_paid_chapters.on_ready from fetch_channel to the end of the iteration,
\* for one choice of what Discord answers
paid_deliver(use_unarchive, fetchOk, isThread, edit1, edit2, s1, s2) ==
    IF ~fetchOk THEN Delivery("skip_dest", 0, FALSE)
    ELSE IF ~ensure_thread_ready(isThread, use_unarchive, edit1)
    THEN Delivery("skip_unready", 0, FALSE)
    ELSE IF s1 = "ok" THEN Delivery("sent", 1, FALSE)
    ELSE IF s1 = "neterr" THEN Delivery("raised", 1, FALSE)
    ELSE IF isThread /\ SendStatus(s1) \in {400, 403}
    THEN IF ensure_thread_ready(isThread, use_unarchive, edit2)
         THEN Delivery(IF s2 = "ok" THEN "sent" ELSE "raised", 2,
                       s1 = "archived" /\ s2 = "archived")
         ELSE Delivery("failed", 1, s1 = "archived")
    ELSE Delivery("failed", 1, s1 = "archived")

PaidOutcomes(use_unarchive) ==
    { paid_deliver(use_unarchive, fetchOk, isThread, edit1, edit2, s1, s2) :
        fetchOk \in BOOLEAN, isThread \in BOOLEAN, edit1 \in BOOLEAN, edit2 \in BOOLEAN,
        s1 \in DiscordSends, s2 \in DiscordSends }
PaidOutcomesPlain     == PaidOutcomes(FALSE)
PaidOutcomesUnarchive == PaidOutcomes(TRUE)

\* bot_paid_chapters.on_ready: one iteration of `for entry in queue`
PaidEntry ==
    /\ pc = "loop" /\ cfg.bot = "paid"
    /\ LET e  == to_send[idx]
           sc == find_short_code_for_entry(e)
       IN
       \/ /\ sc = ""
          /\ log' = Append(log, LogItem(e, "skip_code", 0, FALSE))
          /\ new_last' = StepCursor(e, "skip_code")
          /\ Advance
       \/ /\ sc # "" /\ _thread_id_for(sc) = None
          /\ log' = Append(log, LogItem(e, "skip_route", 0, FALSE))
          /\ new_last' = StepCursor(e, "skip_route")
          /\ Advance
       \/ /\ sc # "" /\ _thread_id_for(sc) # None
          /\ \E d \in (IF cfg.unarchive THEN PaidOutcomesUnarchive ELSE PaidOutcomesPlain) :
               /\ log' = Append(log, LogItem(e, d.res, d.attempts, d.archived))
               /\ new_last' = StepCursor(e, d.res)
               /\ IF d.res = "raised" THEN Escape("hung") ELSE Advance
    /\ UNCHANGED <<cfg, feed, stateFile, state, to_send, last>>

\* resolve_thread with steps 1/2 and 3 exchanged: the cache is asked first
resolve_thread_cache_first(threads, novel, autocreate, fetchOk, createOk) ==
    IF threads[novel] # None
    THEN IF fetchOk THEN <<threads[novel], threads, FALSE, <<"cache">>>>
                    ELSE <<None, threads, FALSE, <<"cache">>>>
    ELSE IF novel = "X"
    THEN IF fetchOk THEN <<EnvTid, [threads EXCEPT ![novel] = EnvTid], TRUE, <<"env">>>>
                    ELSE <<None, threads, FALSE, <<"env">>>>
    ELSE IF autocreate
    THEN IF createOk THEN <<CreatedTid, [threads EXCEPT ![novel] = CreatedTid], TRUE, <<"create">>>>
                     ELSE <<None, threads, FALSE, <<"create">>>>
    ELSE <<None, threads, FALSE, <<>>>>

\* bot_free_chapters.resolve_thread: <<thread id or None when it raises,
\* state["threads"] afterwards, whether save_state(state) was called, the
\* steps of the priority list that were tried>>
resolve_thread(threads, novel, autocreate, fetchOk, createOk) ==
    IF novel = "X"
    THEN IF fetchOk THEN <<EnvTid, [threads EXCEPT ![novel] = EnvTid], TRUE, <<"env">>>>
                    ELSE <<None, threads, FALSE, <<"env">>>>
    ELSE IF threads[novel] # None
    THEN IF fetchOk THEN <<threads[novel], threads, FALSE, <<"cache">>>>
                    ELSE <<None, threads, FALSE, <<"cache">>>>
    ELSE IF autocreate
    THEN IF createOk THEN <<CreatedTid, [threads EXCEPT ![novel] = CreatedTid], TRUE, <<"create">>>>
                     ELSE <<None, threads, FALSE, <<"create">>>>
    ELSE <<None, threads, FALSE, <<>>>>

\* the try body with the except of line 251 dropped: thread.send is reached
\* although resolve_thread raised
free_deliver_unrouted(tid, s1) ==
    IF s1 = "ok" THEN Delivery("sent", 1, FALSE)
    ELSE Delivery("failed", 1, s1 = "archived")

\* bot_free_chapters.on_ready, the try body after resolve_thread: an exception
\* of resolve_thread (tid = None) or of thread.send ends the iteration only
free_deliver(tid, s1) ==
    IF tid = None THEN Delivery("skip_dest", 0, FALSE)
    ELSE IF s1 = "ok" THEN Delivery("sent", 1, FALSE)
    ELSE Delivery("failed", 1, s1 = "archived")

\* bot_free_chapters.on_ready: one iteration of `for entry in to_send`
FreeEntry ==
    /\ pc = "loop" /\ cfg.bot = "free"
    /\ \E fetchOk \in BOOLEAN, createOk \in BOOLEAN, s1 \in DiscordSends :
         LET e   == to_send[idx]
             rt  == resolve_thread(state.threads, e.novel, cfg.autocreate, fetchOk, createOk)
             st  == [state EXCEPT !.threads = rt[2]]
             d   == free_deliver(rt[1], s1)
         IN  /\ state' = st
             /\ stateFile' = (IF rt[3] THEN st ELSE stateFile)
             /\ log' = Append(log, [LogItem(e, d.res, d.attempts, d.archived)
                                       EXCEPT !.thread = rt[1],
                                              !.cached = state.threads[e.novel],
                                              !.tried = rt[4]])
             /\ new_last' = StepCursor(e, d.res)
             /\ Advance
    /\ UNCHANGED <<cfg, feed, to_send, last>>

\* the end of the run with `if new_last and` dropped from the guard
FinishRunUnguarded ==
    /\ pc = "finish"
    /\ IF new_last # last
       THEN /\ state' = [state EXCEPT ![FEED_KEY(cfg.bot)] = new_last]
            /\ stateFile' = state'
       ELSE UNCHANGED <<state, stateFile>>
    /\ pc' = "done"
    /\ UNCHANGED <<cfg, feed, to_send, idx, last, new_last, log>>

\* after the loop: persist the cursor when it moved; then return / close
FinishRun ==
    /\ pc = "finish"
    /\ IF new_last # None /\ new_last # last
       THEN /\ state' = [state EXCEPT ![FEED_KEY(cfg.bot)] = new_last]
            /\ stateFile' = state'
       ELSE UNCHANGED <<state, stateFile>>
    /\ pc' = "done"
    /\ UNCHANGED <<cfg, feed, to_send, idx, last, new_last, log>>

\* the scheduler starts the script again (a hung client is killed first)
NextRun ==
    /\ pc \in {"done", "aborted", "hung"}
    /\ pc' = "idle"
    /\ to_send' = <<>> /\ idx' = 1 /\ last' = None /\ new_last' = None /\ log' = <<>>
    /\ state' = stateFile
    /\ UNCHANGED <<cfg, feed, stateFile>>

\* values of the variables a specification does not use
FeedIdle ==
    /\ cfg = Cfg("comments", FALSE, FALSE) /\ feed = <<>>
    /\ stateFile = Doc(None, None, None, Absent, NoThreads)
    /\ state = stateFile
    /\ pc = "off" /\ to_send = <<>> /\ idx = 1 /\ last = None /\ new_last = None
    /\ log = <<>>
SendIdle == call = [fn |-> "none"] /\ result = Outcome(<<>>, <<>>, 0, "none")
ArcIdle ==
    /\ historyFile = [unlocked |-> <<>>, locked |-> <<>>, last_announced |-> <<>>]
    /\ arcRun = [path |-> "none"] /\ announced = [once |-> {}, again |-> {}]
    /\ headerFailed = FALSE /\ moved = {}

\* the novel's entry in state.json when nothing was ever recorded for it
EmptyMeta ==
    [extra_announced |-> FALSE, last_extra_announced |-> 0,
     paid_completion |-> FALSE, free_completion |-> FALSE,
     only_free_completion |-> FALSE, launch_free |-> FALSE]

\* state.json: form is "valid" (parses as JSON), "missing", "empty" or
\* "invalid"; meta is the novel's entry of a valid file
StateDoc(form, meta) == [form |-> form, meta |-> meta]

\* a mapping entry: which feeds the novel defines, whether its
\* <SHORTCODE>_THREAD_ID secret and the bot token / channel id are set
NovelCfg(paid, free, thread, token) ==
    [paid_feed |-> paid, free_feed |-> free, thread |-> thread, token |-> token]

NoRun == [who |-> "none", tick |-> 0]

NoneDelivered ==
    [k \in {"extra_announced", "paid_completion", "free_completion",
             "only_free_completion", "launch_free"} |-> 0]

StateIdle ==
    /\ novelEntry = NovelCfg(TRUE, TRUE, TRUE, TRUE)
    /\ stateJson = StateDoc("missing", EmptyMeta)
    /\ chk = NoRun /\ delivered = NoneDelivered

InitFeed ==
    /\ cfg \in Cfgs
    /\ feed \in Feeds
    /\ \E ck \in 0..GoneGuid : stateFile \in StartDocs(cfg.bot, ck)
    /\ state = stateFile
    /\ pc = "idle" /\ to_send = <<>> /\ idx = 1 /\ last = None /\ new_last = None
    /\ log = <<>>
    /\ SendIdle /\ ArcIdle /\ StateIdle

NextFeed ==
    \/ (StartRun /\ UNCHANGED <<sendVars, arcVars, chkVars>>)
    \/ (CommentsEntry /\ UNCHANGED <<sendVars, arcVars, chkVars>>)
    \/ (PaidEntry /\ UNCHANGED <<sendVars, arcVars, chkVars>>)
    \/ (FreeEntry /\ UNCHANGED <<sendVars, arcVars, chkVars>>)
    \/ (FinishRun /\ UNCHANGED <<sendVars, arcVars, chkVars>>)
    \/ (NextRun /\ UNCHANGED <<sendVars, arcVars, chkVars>>)

SpecFeed == InitFeed /\ [][NextFeed]_vars

(***************************************************************************)
(* Single calls of the REST delivery functions                             *)
(***************************************************************************)
Call(fn, u, sc) == [fn |-> fn, unarchive |-> u, script |-> sc]

NotCalled == Outcome(<<>>, <<>>, 0, "none")

InitSend ==
    /\ \E rs \in [1..3 -> Responses], j \in BOOLEAN, p \in BOOLEAN :
         \/ \E u \in BOOLEAN : call = Call("post_message", u, Script(rs, j, p))
         \/ call = Call("send_bot_message", FALSE, Script(rs, j, FALSE))
    /\ result = NotCalled
    /\ FeedIdle /\ ArcIdle /\ StateIdle

CallPostMessage ==
    /\ call.fn = "post_message" /\ result = NotCalled
    /\ result' = post_message(call.script, call.unarchive)
    /\ UNCHANGED call

CallSendBotMessage ==
    /\ call.fn = "send_bot_message" /\ result = NotCalled
    /\ result' = send_bot_message(call.script)
    /\ UNCHANGED call

NextSend ==
    \/ (CallPostMessage /\ UNCHANGED <<feedVars, arcVars, chkVars>>)
    \/ (CallSendBotMessage /\ UNCHANGED <<feedVars, arcVars, chkVars>>)

SpecSend == InitSend /\ [][NextSend]_vars

(***************************************************************************)
(* Arc tracker: new_arc_checker.process_arc                                *)
(*                                                                         *)
(* A title is a sequence of tokens; the token "[Arc n]" stands for the     *)
(* prefix written by f"【Arc {n}】".                                         *)
(***************************************************************************)
ArcToks == <<"[Arc 1]", "[Arc 2]", "[Arc 3]", "[Arc 4]", "[Arc 5]", "[Arc 6]",
             "[Arc 7]", "[Arc 8]", "[Arc 9]">>

IsTag(t)  == \E n \in DOMAIN ArcToks : ArcToks[n] = t
TagNum(t) == CHOOSE n \in DOMAIN ArcToks : ArcToks[n] = t

\* base names produced by extract_new_bases: "Foo", "Big Foo", "Bar"
ArcBases == { <<"Foo">>, <<"Big", "Foo">>, <<"Bar">> }

\* full = f"【Arc {n}】{base}"
FormatArc(n, base) == <<ArcToks[n]>> \o base

\* extract_arc_number: re.search(r"【Arc\s*(\d+)】", title), None without match
extract_arc_number(title) ==
    LET hits == { i \in 1..Len(title) : IsTag(title[i]) }
    IN  IF hits = {} THEN None
        ELSE TagNum(title[CHOOSE i \in hits : \A j \in hits : i <= j])

\* re.sub(r"^【Arc\s*\d+】", "", t)
StripArcTag(t) == IF t # <<>> /\ IsTag(t[1]) THEN Tail(t) ELSE t

\* str.endswith
EndsWith(full, base) ==
    /\ Len(base) <= Len(full)
    /\ SubSeq(full, Len(full) - Len(base) + 1, Len(full)) = base

Range(s) == { s[i] : i \in 1..Len(s) }

\* deduplicate: first occurrences, order kept
deduplicate(lst) ==
    LET D[i \in 0..Len(lst)] ==
            IF i = 0 THEN <<>>
            ELSE IF lst[i] \in Range(D[i-1]) THEN D[i-1] ELSE Append(D[i-1], lst[i])
    IN  D[Len(lst)]

\* list.remove(x): drops the first occurrence
Remove(lst, x) ==
    LET k == Index(lst, x)
    IN  SubSeq(lst, 1, k - 1) \o SubSeq(lst, k + 1, Len(lst))

MaxOf(S) == IF S = {} THEN 0 ELSE CHOOSE m \in S : \A x \in S : x <= m

\* next_arc_number: last announced number + 1, else max number in history + 1
next_arc_number(history) ==
    LET n == extract_arc_number(history.last_announced)
    IN  IF n # None THEN n + 1
        ELSE MaxOf({ extract_arc_number(t) :
                        t \in Range(history.unlocked) \cup Range(history.locked) }
                   \ {None}) + 1

\* seen_bases / seen_bases_after_free
SeenBases(history) ==
    { StripArcTag(t) : t \in Range(history.unlocked) \cup Range(history.locked) }

\* feed entries of process_arc: start = the entry carries this novel's title
\* and looks_like_arc_start; base = the base name derived from it
ArcEntries == [start : BOOLEAN, base : ArcBases]
\* a feed of up to MaxArcFeed arbitrary entries, or of several chapters of one
\* arc: the soft fallback of looks_like_arc_start accepts every chapter whose
\* volume reads "Arc <n> ...", so one base can come up more than once
ArcFeeds   ==
    UNION { [1..n -> ArcEntries] : n \in 0..MaxArcFeed }
    \cup { [i \in 1..n |-> [start |-> TRUE, base |-> b]] : n \in 1..MaxArcRepeat, b \in ArcBases }

\* extract_new_bases: bases of the arc-start entries, in feed order
extract_new_bases(f) ==
    LET B[i \in 0..Len(f)] ==
            IF i = 0 THEN <<>>
            ELSE IF f[i].start THEN Append(B[i-1], f[i].base) ELSE B[i-1]
    IN  B[Len(f)]

\* the pairs <<free_new, paid_new>> a run can detect
ArcInputs == { <<extract_new_bases(f), extract_new_bases(p)>> : f \in ArcFeeds, p \in ArcFeeds }

\* working state of step 3: history, flags, and what the run did so far
Work(h, fc, pc_, as, mv) ==
    [h |-> h, free_created |-> fc, paid_created |-> pc_, assigned |-> as, moved |-> mv]

\* positions of the locked labels that end with base
LockedMatches(locked, base) == { i \in 1..Len(locked) : EndsWith(locked[i], base) }

\* the `for full in history["locked"][:]` scan stops at the first match
FirstLockedMatch(locked, base) ==
    locked[CHOOSE i \in LockedMatches(locked, base) :
              \A j \in LockedMatches(locked, base) : i <= j]

\* locked.remove(full); unlocked.append(full) unless it is there already
Unlock(w, full) ==
    [w EXCEPT !.h = [w.h EXCEPT !.locked = Remove(w.h.locked, full),
                                !.unlocked = IF full \in Range(w.h.unlocked)
                                             THEN w.h.unlocked
                                             ELSE Append(w.h.unlocked, full)],
              !.moved = w.moved \cup {full}]

\* a brand-new arc that started free gets number n
RegisterFree(w, base, n) ==
    [w EXCEPT !.h = [w.h EXCEPT !.unlocked = Append(w.h.unlocked, FormatArc(n, base))],
              !.free_created = TRUE,
              !.assigned = Append(w.assigned, n)]

\* a new locked arc gets number n
RegisterPaid(w, base, n) ==
    [w EXCEPT !.h = [w.h EXCEPT !.locked = Append(w.h.locked, FormatArc(n, base))],
              !.paid_created = TRUE,
              !.assigned = Append(w.assigned, n)]

\* 3A, one iteration of `for base in free_new`
FreeStep(w, base) ==
    IF LockedMatches(w.h.locked, base) # {}
    THEN Unlock(w, FirstLockedMatch(w.h.locked, base))
    ELSE IF base \notin SeenBases(w.h)
    THEN RegisterFree(w, base, next_arc_number(w.h))
    ELSE w

PaidStepUnguarded(w, base, seen) ==
    RegisterPaid(w, base, next_arc_number(w.h))

\* 3B, one iteration of `for base in paid_new`; seen is computed before the loop
PaidStep(w, base, seen) ==
    IF base \notin seen THEN RegisterPaid(w, base, next_arc_number(w.h)) ELSE w

\* 3A: the loop over free_new
FreeLoop(history, free_new) ==
    LET F[i \in 0..Len(free_new)] ==
            IF i = 0 THEN Work(history, FALSE, FALSE, <<>>, {})
            ELSE FreeStep(F[i-1], free_new[i])
    IN  F[Len(free_new)]

\* 3B: the loop over paid_new, with seen_bases_after_free computed once
PaidLoop(afterFree, paid_new, seen) ==
    LET P[i \in 0..Len(paid_new)] ==
            IF i = 0 THEN afterFree
            ELSE PaidStep(P[i-1], paid_new[i], seen)
    IN  P[Len(paid_new)]

\* step 4: deduplicate both lists
DedupHistory(w) ==
    [w EXCEPT !.h = [w.h EXCEPT !.unlocked = deduplicate(w.h.unlocked),
                                !.locked   = deduplicate(w.h.locked)]]

PaidAfterFree(afterFree, paid_new) ==
    PaidLoop(afterFree, paid_new, SeenBases(afterFree.h))

\* steps 3 and 4: update the history from the detected bases, deduplicate
UpdateHistory(history, free_new, paid_new) ==
    DedupHistory(PaidAfterFree(FreeLoop(history, free_new), paid_new))

SendResults == [header : BOOLEAN, unlocked : BOOLEAN, locked : BOOLEAN, footer : BOOLEAN]

\* numbers carried by the labels of a history
ArcNumbers(history) ==
    { extract_arc_number(t) : t \in Range(history.unlocked) \cup Range(history.locked) } \ {None}

ArcResult(path, before, w, h, saved, parts, header) ==
    [path |-> path, hist |-> h, saved |-> saved, parts |-> parts, header |-> header,
     assigned |-> w.assigned, moved_now |-> w.moved, prior |-> MaxOf(ArcNumbers(before)),
     retried |-> {}, part_failed |-> FALSE, inp |-> <<>>]

BootstrappedUnmarked(h) == h

\* the bootstrap guard marks the newest locked arc as announced
Bootstrapped(h) ==
    IF h.locked # <<>> THEN [h EXCEPT !.last_announced = Last(h.locked)] ELSE h

\* steps 4b - 5 for the updated working state w: the path taken, the history
\* in memory, whether it was saved
decide_path(history, w) ==
    IF history.locked = <<>> /\ history.unlocked = <<>>
       /\ (w.free_created \/ w.paid_created)
    THEN ArcResult("bootstrap", history, w, Bootstrapped(w.h), TRUE, <<>>, "none")
    ELSE IF w.free_created /\ ~w.paid_created /\ w.h.locked = <<>>
    THEN ArcResult("first_arc_free_only", history, w, w.h, TRUE, <<>>, "none")
    ELSE IF w.paid_created /\ ~w.free_created
            /\ history.locked = <<>> /\ history.unlocked = <<>>
    THEN ArcResult("first_arc_paid_only", history, w, w.h, TRUE, <<>>, "none")
    ELSE IF w.h.locked = <<>>
    THEN ArcResult("no_locked", history, w, w.h, FALSE, <<>>, "none")
    ELSE IF Last(w.h.locked) = w.h.last_announced
    THEN ArcResult("already_announced", history, w, w.h, FALSE, <<>>, "none")
    ELSE ArcResult("announce", history, w, w.h, FALSE, <<>>, "none")

\* process_arc from load_history to the announcement decision (steps 2 - 5)
\* for given detected bases
decide_arc(history, free_new, paid_new) ==
    decide_path(history, UpdateHistory(history, free_new, paid_new))

\* the messages of one announcement, in the order they are posted
AnnounceParts(hist) ==
    <<"header">> \o (IF hist.unlocked # <<>> THEN <<"unlocked">> ELSE <<>>)
                 \o <<"locked", "footer">>

\* some message after the header was attempted and failed
PartFailed(hist, sends) ==
    \/ (hist.unlocked # <<>> /\ ~sends.unlocked)
    \/ ~sends.locked
    \/ ~sends.footer

announce_arc_all_or_nothing(d, sends) ==
    IF sends.header /\ ~PartFailed(d.hist, sends)
    THEN [d EXCEPT !.hist = [d.hist EXCEPT !.last_announced = Last(d.hist.locked)],
                   !.saved = TRUE, !.parts = AnnounceParts(d.hist), !.header = "ok",
                   !.part_failed = PartFailed(d.hist, sends)]
    ELSE [d EXCEPT !.parts = AnnounceParts(d.hist),
                   !.header = IF sends.header THEN "ok" ELSE "failed",
                   !.part_failed = PartFailed(d.hist, sends)]

\* steps 8 and 9: the posts and the final save, for given outcomes of the posts.
\* Each post sits in its own try/except, so every part is attempted; only the
\* header's outcome decides the save.
announce_arc(d, sends) ==
    IF sends.header
    THEN [d EXCEPT !.hist = [d.hist EXCEPT !.last_announced = Last(d.hist.locked)],
                   !.saved = TRUE, !.parts = AnnounceParts(d.hist), !.header = "ok",
                   !.part_failed = PartFailed(d.hist, sends)]
    ELSE [d EXCEPT !.parts = AnnounceParts(d.hist), !.header = "failed",
                   !.part_failed = PartFailed(d.hist, sends)]

\* the ways a run can end once its path is decided: outcomes of the posts
RunEndings(d) ==
    IF d.path = "announce" THEN { announce_arc(d, sends) : sends \in SendResults }
                           ELSE { d }

\* labels unlocked earlier whose base a paid arc-start entry carries again
Retried(paid_new) == { t \in moved : StripArcTag(t) \in Range(paid_new) }

\* every way one run can go from the history on disk: detected bases and
\* outcomes of the posts
ArcRuns(history) ==
    UNION { RunEndings([decide_arc(history, inp[1], inp[2]) EXCEPT !.retried = Retried(inp[2]),
                                                                   !.inp = inp])
            : inp \in ArcInputs }

\* one scheduled run of process_arc for the novel
ProcessArc ==
    \E r \in ArcRuns(historyFile) :
        /\ arcRun' = [path |-> r.path, saved |-> r.saved, header |-> r.header, parts |-> r.parts,
                      assigned |-> r.assigned, prior |-> r.prior, retried |-> r.retried,
                      part_failed |-> r.part_failed,
                      changed |-> (r.hist.unlocked # historyFile.unlocked
                                     \/ r.hist.locked # historyFile.locked),
                      \* the detected bases, kept for the comparison with the next
                      \* run when this run posted its header or was a bootstrap run
                      inp |-> (IF r.header = "ok" \/ r.path = "bootstrap" THEN r.inp ELSE <<>>),
                      rerun |-> (arcRun.path # "none" /\ arcRun.inp = r.inp)]
        /\ historyFile' = (IF r.saved THEN r.hist ELSE historyFile)
        /\ announced' = (IF r.header = "ok"
                         THEN LET t == Last(r.hist.locked) IN
                              IF t \in announced.once
                              THEN [announced EXCEPT !.again = @ \cup {t}]
                              ELSE [announced EXCEPT !.once = @ \cup {t}]
                         ELSE announced)
        /\ headerFailed' = (headerFailed \/ r.header = "failed")
        /\ moved' = (IF r.saved THEN moved \cup r.moved_now ELSE moved)

InitArc ==
    /\ ArcIdle
    /\ FeedIdle /\ SendIdle /\ StateIdle

NextArc == ProcessArc /\ UNCHANGED <<feedVars, sendVars, chkVars>>

SpecArc == InitArc /\ [][NextArc]_vars

(***************************************************************************)
(* state.json checkers: new_extra_checker.process_extras,                  *)
(* completed_novel_checker.main and new_novel_checker.main, for one novel  *)
(* whose last_chapter is configured.                                       *)
(***************************************************************************)
FileForms == {"valid", "missing", "empty", "invalid"}

NovelCfgs ==
    { NovelCfg(p, f, th, tk) : p \in BOOLEAN, f \in BOOLEAN, th \in BOOLEAN, tk \in BOOLEAN }
    \ { NovelCfg(FALSE, FALSE, th, tk) : th \in BOOLEAN, tk \in BOOLEAN }

\* new_extra_checker.load_state: {} for a missing, empty or malformed file
extras_load_state(file) == IF file.form = "valid" THEN file.meta ELSE EmptyMeta

\* completed_novel_checker.load_state / new_novel_checker.load_state:
\* json.load inside `except FileNotFoundError` only
checker_load_raises(file) == file.form \in {"empty", "invalid"}
checker_load_state(file) == IF file.form = "valid" THEN file.meta ELSE EmptyMeta

\* what new_extra_checker.send_bot_message reports, over every server script
BotOutcomeKinds ==
    { send_bot_message(Script(rs, j, FALSE)).outcome :
        rs \in [1..3 -> FeedResponses], j \in BOOLEAN }

\* what the single requests.post + raise_for_status of the completion and
\* launch checkers reports
PostOutcomeKinds == { Returned(r) : r \in FeedResponses }

\* new_extra_checker.safe_send_bot: HTTPError and RequestException -> False
safe_send_bot(o) == o = "ok"

\* result of one checker run for the novel
RunResult(path, attempts, sent, file, flag) ==
    [path |-> path, attempts |-> attempts, sent |-> sent, file |-> file, flag |-> flag]

ExtrasLatchedNever(meta) == FALSE

\* if meta.get("extra_announced")
ExtrasLatched(meta) == meta.extra_announced

extras_after_send_unconditional(file, meta, current, ok) ==
    StateDoc("valid", [meta EXCEPT !.extra_announced = TRUE,
                                   !.last_extra_announced = current])

\* if safe_send_bot(...): update meta and save_state(state)
extras_after_send(file, meta, current, ok) ==
    IF ok THEN StateDoc("valid", [meta EXCEPT !.extra_announced = TRUE,
                                              !.last_extra_announced = current])
          ELSE file

\* process_extras from the completion guard on, meta being the loaded entry
extras_decide(n, file, meta, max_ex, max_ss, o) ==
    IF meta.paid_completion \/ meta.free_completion \/ meta.only_free_completion
    THEN RunResult("skip_completed", 0, FALSE, file, "extra_announced")
    ELSE IF ExtrasLatched(meta)
    THEN RunResult("skip_latched", 0, FALSE, file, "extra_announced")
    ELSE IF Max(max_ex, max_ss) <= meta.last_extra_announced
    THEN RunResult("skip_no_new", 0, FALSE, file, "extra_announced")
    ELSE IF ~n.token
    THEN RunResult("skip_no_token", 0, FALSE, file, "extra_announced")
    ELSE RunResult(IF safe_send_bot(o) THEN "sent" ELSE "send_failed", 1, safe_send_bot(o),
                   extras_after_send(file, meta, Max(max_ex, max_ss), safe_send_bot(o)),
                   "extra_announced")

\* new_extra_checker.process_extras
process_extras(n, file, final, max_ex, max_ss, o) ==
    IF ~n.thread THEN RunResult("skip_no_thread", 0, FALSE, file, "extra_announced")
    ELSE IF final THEN RunResult("skip_final", 0, FALSE, file, "extra_announced")
    ELSE extras_decide(n, file, extras_load_state(file), max_ex, max_ss, o)

\* the generic skip check before parsing: paid_completion / free_completion
completion_key(feed_type) ==
    IF feed_type = "paid" THEN "paid_completion" ELSE "free_completion"

completion_flag_paid_always(feed_type, has_paid) == "paid_completion"

\* the flag of the branch taken for the matching entry
completion_flag(feed_type, has_paid) ==
    IF feed_type = "free" /\ ~has_paid THEN "only_free_completion"
    ELSE IF feed_type = "paid" THEN "paid_completion"
    ELSE "free_completion"

already_notified_never(meta, key) == FALSE

\* if state.get(novel_id, {}).get(key)
already_notified(meta, key) == meta[key]

\* the branch for the first entry that carries the last-chapter marker
completed_entry(file, meta, flag, dur_ok, o) ==
    IF already_notified(meta, flag) THEN RunResult("skip_notified", 0, FALSE, file, flag)
    ELSE IF flag # "free_completion" /\ ~dur_ok
    THEN RunResult("crashed", 0, FALSE, file, flag)
    ELSE IF o = "exception" THEN RunResult("crashed", 1, FALSE, file, flag)
    ELSE IF o = "ok"
    THEN RunResult("sent", 1, TRUE, StateDoc("valid", [meta EXCEPT ![flag] = TRUE]), flag)
    ELSE RunResult("send_failed", 1, FALSE, file, flag)

\* completed_novel_checker.main, loop body for the novel
completed_novel(n, file, meta, feed_type, marker, dur_ok, o) ==
    IF ~(IF feed_type = "paid" THEN n.paid_feed ELSE n.free_feed)
    THEN RunResult("skip_no_feed", 0, FALSE, file, "none")
    ELSE IF already_notified(meta, completion_key(feed_type))
    THEN RunResult("skip_notified", 0, FALSE, file, completion_key(feed_type))
    ELSE IF ~marker
    THEN RunResult("no_marker", 0, FALSE, file, "none")
    ELSE completed_entry(file, meta, completion_flag(feed_type, n.paid_feed), dur_ok, o)

\* completed_novel_checker.main
completed_main(n, file, feed_type, marker, dur_ok, o) ==
    IF ~n.token THEN RunResult("exit_env", 0, FALSE, file, "none")
    ELSE IF checker_load_raises(file) THEN RunResult("load_failed", 0, FALSE, file, "none")
    ELSE completed_novel(n, file, checker_load_state(file), feed_type, marker, dur_ok, o)

already_launched_never(meta) == FALSE

\* if state.get(novel_title, {}).get("launch_free")
already_launched(meta) == meta.launch_free

\* new_novel_checker.main, loop body for the novel
launch_novel(file, meta, first, o) ==
    IF already_launched(meta) THEN RunResult("skip_launched", 0, FALSE, file, "launch_free")
    ELSE IF ~first THEN RunResult("no_first_chapter", 0, FALSE, file, "launch_free")
    ELSE IF o = "exception" THEN RunResult("crashed", 1, FALSE, file, "launch_free")
    ELSE IF o = "ok"
    THEN RunResult("sent", 1, TRUE, StateDoc("valid", [meta EXCEPT !.launch_free = TRUE]),
                   "launch_free")
    ELSE RunResult("send_failed", 1, FALSE, file, "launch_free")

\* new_novel_checker.main
launch_main(n, file, first, o) ==
    IF ~n.token THEN RunResult("exit_env", 0, FALSE, file, "none")
    ELSE IF checker_load_raises(file) THEN RunResult("load_failed", 0, FALSE, file, "none")
    ELSE launch_novel(file, checker_load_state(file), first, o)

\* exit status of the script whose run for the novel took this path:
\* sys.exit("...") and an uncaught exception end it with status 1, every
\* return from the novel's processing lets it finish with status 0
exit_status(path) == IF path \in {"exit_env", "load_failed", "crashed"} THEN 1 ELSE 0

\* the run r of checker who has happened
Ran(who, r, max_ex, max_ss) ==
    /\ stateJson' = r.file
    /\ chk' = [who |-> who, tick |-> 1 - chk.tick, path |-> r.path, attempts |-> r.attempts,
               sent |-> r.sent, flag |-> r.flag, max_ex |-> max_ex, max_ss |-> max_ss]
    /\ delivered' = (IF r.sent THEN [delivered EXCEPT ![r.flag] = Min(@ + 1, 2)]
                     ELSE delivered)
    /\ UNCHANGED novelEntry

\* one scheduled run of new_extra_checker: the novel is listed when it has a
\* paid feed
ExtrasRun ==
    /\ novelEntry.paid_feed
    /\ \E final \in BOOLEAN, max_ex \in 0..MaxExtra, max_ss \in 0..MaxExtra,
          o \in BotOutcomeKinds :
         Ran("extras", process_extras(novelEntry, stateJson, final, max_ex, max_ss, o),
             max_ex, max_ss)

\* one scheduled run of completed_novel_checker --feed paid | free
CompletedRun ==
    \E feed_type \in {"paid", "free"}, marker \in BOOLEAN, dur_ok \in BOOLEAN,
       o \in PostOutcomeKinds :
        Ran("completed_" \o feed_type,
            completed_main(novelEntry, stateJson, feed_type, marker, dur_ok, o), 0, 0)

\* one scheduled run of new_novel_checker --feed free: the novel is listed
\* when it has a free feed
LaunchRun ==
    /\ novelEntry.free_feed
    /\ \E first \in BOOLEAN, o \in PostOutcomeKinds :
         Ran("launch", launch_main(novelEntry, stateJson, first, o), 0, 0)

InitState ==
    /\ novelEntry \in NovelCfgs
    /\ \E form \in FileForms : stateJson = StateDoc(form, EmptyMeta)
    /\ chk = NoRun /\ delivered = NoneDelivered
    /\ FeedIdle /\ SendIdle /\ ArcIdle

NextState ==
    \/ (ExtrasRun /\ UNCHANGED <<feedVars, sendVars, arcVars>>)
    \/ (CompletedRun /\ UNCHANGED <<feedVars, sendVars, arcVars>>)
    \/ (LaunchRun /\ UNCHANGED <<feedVars, sendVars, arcVars>>)

SpecState == InitState /\ [][NextState]_vars

(***************************************************************************)
(* Properties of the feed bots                                             *)
(***************************************************************************)
RunStarted == pc \in {"loop", "finish", "done", "aborted", "hung"}
RunEnded   == pc \in {"done", "aborted", "hung"}

\* the checkpoint slot of the running bot as stored on disk
Stored == LET v == stateFile[FEED_KEY(cfg.bot)] IN IF v = Absent THEN None ELSE v

\* the cursor right after the i-th processed entry
CursorAfter(i) == IF i < Len(log) THEN log[i + 1].before ELSE new_last

SendFailed(i) == log[i].res \in {"failed", "raised"}

\* guid of the last entry before position i whose send succeeded, else the
\* checkpoint the run started from
LastSentBefore(i) ==
    LET sent == { j \in 1..(i - 1) : log[j].res = "sent" }
    IN  IF sent = {} THEN last
        ELSE log[CHOOSE j \in sent : \A m \in sent : m <= j].guid

\* C1: if the send for an unseen entry E fails during a run, then after the
\* run the stored checkpoint is the id of the last entry before E that was
\* sent (or the pre-run value), whatever happens to the entries after E.
C1_FailedSendPinsCheckpoint ==
    (pc = "done" /\ \A j \in 1..Len(log) : log[j].guid # None) =>
        \A i \in 1..Len(log) : SendFailed(i) => Stored = LastSentBefore(i)

\* C2: for a checkpoint equal to the id of the entry at position k, the
\* selection is exactly the entries at positions k+1..end, in order.
C2_SelectionAfterCheckpoint ==
    RunStarted =>
        LET entries == Entries(cfg.bot, feed) IN
        \A k \in 1..Len(entries) :
            (last # None /\ Guid(entries[k]) = last)
                => to_send = [i \in 1..(Len(entries) - k) |-> entries[k + i]]

C2_Witness ==
    /\ pc = "loop" /\ last # None
    /\ \E k \in 1..Len(Entries(cfg.bot, feed)) : Guid(Entries(cfg.bot, feed)[k]) = last
    /\ Len(to_send) >= 1 /\ Len(to_send) < Len(Entries(cfg.bot, feed))

\* C3: when the checkpoint is None or is not the id of any entry of the
\* (host-filtered) feed, the selection is the full entry sequence, also when
\* some entry has no guid.
C3_CatchUpSelectsAll ==
    RunStarted =>
        LET entries == Entries(cfg.bot, feed) IN
        (last = None \/ \A k \in 1..Len(entries) : Guid(entries[k]) # last)
            => to_send = entries

\* C4: an error raised while processing one entry is caught at that entry:
\* every selected entry is processed and the cursor reached by the entries
\* that succeeded is saved at the end of the run.
C4_ErrorIsolation ==
    RunEnded =>
        /\ Len(log) = Len(to_send)
        /\ (\E i \in 1..Len(log) : log[i].res = "sent") => Stored = new_last

\* C5: a message whose destination answers every send with "archived" is
\* attempted at most twice, the send is reported as failed and the cursor is
\* not advanced for it.
C5_ArchivedRetryBound ==
    \A i \in 1..Len(log) :
        log[i].archived =>
            /\ log[i].attempts <= 2
            /\ SendFailed(i)
            /\ CursorAfter(i) = log[i].before
            /\ (pc = "done" /\ log[i].guid # None /\ log[i].guid # last)
                    => (Stored # log[i].guid \/ \E j \in 1..Len(log) : j # i /\ log[j].guid = log[i].guid)

C5_Witness ==
    \E i \in 1..Len(log) : log[i].archived /\ log[i].attempts = 2 /\ pc = "done"

(***************************************************************************)
(* Properties of the delivery functions                                    *)
(***************************************************************************)
Called == result.outcome # "none"

\* C6: within one call, once a POST has returned success no further POST is
\* issued: the successful posts of a call number zero or one.
C6_NoPostAfterSuccess ==
    Called =>
        /\ \A i \in 1..Len(result.posts) : Ok(result.posts[i]) => i = Len(result.posts)
        /\ Cardinality({ i \in 1..Len(result.posts) : Ok(result.posts[i]) }) <= 1

C6_Witness ==
    /\ Called /\ Len(result.posts) = 3 /\ Ok(result.posts[3])
    /\ result.posts[1].status \in {400, 403} /\ result.posts[2].status = 429

\* positions of the call's POSTs that were answered 429
Limited == { i \in 1..Len(result.posts) : result.posts[i].status = 429 }
FirstLimited == CHOOSE i \in Limited : \A j \in Limited : i <= j

\* the server states its wait in the body, and in the header too or not at all
ConsistentAdvice(r) == r.body # Absent /\ r.hdr \in {Absent, r.body}

ArcLabels(history) == Range(history.unlocked) \cup Range(history.locked)
LockedBases(history) == { StripArcTag(t) : t \in Range(history.locked) }

\* C8: starting from an empty history, each newly assigned arc number is one
\* greater than the previously assigned one, and no two arcs of
\* unlocked + locked carry the same number.
C8_ArcNumbersConsecutiveUnique ==
    /\ \A t1 \in ArcLabels(historyFile), t2 \in ArcLabels(historyFile) :
          t1 # t2 => extract_arc_number(t1) # extract_arc_number(t2)
    /\ arcRun.path # "none" =>
          /\ \A i \in 2..Len(arcRun.assigned) : arcRun.assigned[i] = arcRun.assigned[i-1] + 1
          /\ arcRun.assigned # <<>> => arcRun.assigned[1] = arcRun.prior + 1

C10_NoDoubleAnnounce ==
    ~headerFailed => announced.again = {}

\* C11: when unlocked and locked are both empty before a run and the run
\* registers at least one arc, the run sends no message, sets last_announced
\* to the last locked label if there is one (leaves it empty otherwise) and
\* saves the history.
C11_BootstrapIsSilent ==
    [][ (historyFile.unlocked = <<>> /\ historyFile.locked = <<>> /\ arcRun'.assigned # <<>>)
            => /\ arcRun'.parts = <<>>
               /\ arcRun'.saved
               /\ ArcLabels(historyFile') # {}
               /\ historyFile'.last_announced =
                      (IF historyFile'.locked # <<>> THEN Last(historyFile'.locked) ELSE <<>>)
               /\ announced' = announced ]_vars

C11_Witness ==
    /\ arcRun.path = "bootstrap"
    /\ historyFile.unlocked = <<>>
    /\ historyFile.locked = <<FormatArc(1, <<"Foo">>)>>
    /\ historyFile.last_announced = FormatArc(1, <<"Foo">>)

\* C12: in an announcing run, last_announced becomes the newest locked label
\* and the history is saved exactly when the header send succeeded; a failed
\* unlocked, locked or footer message stops neither the other messages nor
\* the save; when the header fails the history file is left as it was.
C12_HeaderDecidesSave ==
    [][ arcRun'.path = "announce" =>
            /\ {"header", "locked", "footer"} \subseteq Range(arcRun'.parts)
            /\ arcRun'.saved <=> arcRun'.header = "ok"
            /\ arcRun'.header = "ok" =>
                    historyFile'.last_announced = Last(historyFile'.locked)
            /\ arcRun'.header = "failed" => historyFile' = historyFile ]_vars

C12_Witness ==
    /\ arcRun.path = "announce" /\ arcRun.header = "ok" /\ arcRun.part_failed
    /\ arcRun.saved
    /\ historyFile.last_announced = Last(historyFile.locked)

(***************************************************************************)
(* Properties of the state.json checkers                                   *)
(***************************************************************************)
\* the novel's entry as a reader of the file sees it
MetaOf(file) == IF file.form = "valid" THEN file.meta ELSE EmptyMeta

CompletionFlags == {"paid_completion", "free_completion", "only_free_completion"}

\* this step is a run of checker who
IsRunOf(who) == chk'.tick # chk.tick /\ chk'.who = who

\* the completion flag a run of the completion checker is about
FlagOfRun(who) ==
    IF who = "completed_paid" THEN "paid_completion"
    ELSE IF novelEntry.paid_feed THEN "free_completion" ELSE "only_free_completion"

\* C13: once extra_announced is true in the persisted state, no later run of
\* process_extras makes a send attempt for the novel, however high the
\* detected index is; at most one extras announcement is ever delivered.
C13_ExtrasLatch ==
    [][ /\ (IsRunOf("extras") /\ MetaOf(stateJson).extra_announced) => chk'.attempts = 0
        /\ delivered'.extra_announced <= 1 ]_vars

C13_Witness ==
    /\ chk.who = "extras" /\ chk.path = "skip_latched"
    /\ stateJson.form = "valid" /\ stateJson.meta.extra_announced
    /\ chk.max_ex > stateJson.meta.last_extra_announced
    /\ delivered.extra_announced = 1

\* C14: process_extras sets extra_announced and last_extra_announced =
\* max(extra index, side-story index) and saves exactly when the send
\* returned success; on every skip path and on a failed send the persisted
\* document is unchanged.
C14_ExtrasStateOnDelivery ==
    [][ IsRunOf("extras") =>
            IF chk'.sent
            THEN stateJson' = StateDoc("valid",
                     [MetaOf(stateJson) EXCEPT !.extra_announced = TRUE,
                          !.last_extra_announced = Max(chk'.max_ex, chk'.max_ss)])
            ELSE stateJson' = stateJson ]_vars

C14_Witness ==
    /\ chk.who = "extras" /\ chk.sent /\ chk.max_ss > chk.max_ex
    /\ stateJson.meta.extra_announced
    /\ stateJson.meta.last_extra_announced = chk.max_ss

\* C15: a --feed paid run can only set paid_completion; a --feed free run
\* sets free_completion for a novel with a paid feed and only_free_completion
\* for a novel without one; the other flags are left unchanged, and a novel
\* without a paid feed never acquires paid_completion.
C15_CompletionFlagScope ==
    [][ /\ \A f \in CompletionFlags :
              MetaOf(stateJson')[f] # MetaOf(stateJson)[f]
                  => /\ chk'.who \in {"completed_paid", "completed_free"}
                     /\ f = FlagOfRun(chk'.who)
        /\ \A who \in {"completed_paid", "completed_free"} :
              (IsRunOf(who) /\ chk'.sent) => MetaOf(stateJson')[FlagOfRun(who)]
        /\ ~novelEntry.paid_feed => ~MetaOf(stateJson').paid_completion ]_vars

C15_Witness ==
    /\ chk.who = "completed_free" /\ chk.sent
    /\ stateJson.meta.free_completion /\ stateJson.meta.paid_completion
    /\ ~stateJson.meta.only_free_completion

\* C16: a completion flag is written only after its send returned success,
\* is never removed by a later run, and once present no later run sends that
\* announcement again; a run makes at most one send attempt for the novel.
C16_CompletionOneShot ==
    [][ /\ \A f \in CompletionFlags :
              /\ MetaOf(stateJson)[f] => MetaOf(stateJson')[f]
              /\ (~MetaOf(stateJson)[f] /\ MetaOf(stateJson')[f])
                    => (chk'.sent /\ chk'.flag = f)
              /\ delivered'[f] <= 1
        /\ \A who \in {"completed_paid", "completed_free"} :
              IsRunOf(who) =>
                  /\ chk'.attempts <= 1
                  /\ MetaOf(stateJson)[FlagOfRun(who)] => chk'.attempts = 0 ]_vars

C16_Witness ==
    /\ chk.who = "completed_paid" /\ chk.path = "skip_notified"
    /\ stateJson.meta.paid_completion /\ delivered.paid_completion = 1

\* C17: launch_free is written only after the launch send returned success;
\* once present no later run of the launch checker makes a send attempt for
\* the novel; a run makes at most one launch send for the novel.
C17_LaunchOneShot ==
    [][ /\ (~MetaOf(stateJson).launch_free /\ MetaOf(stateJson').launch_free)
              => (chk'.who = "launch" /\ chk'.sent)
        /\ IsRunOf("launch") =>
              /\ chk'.attempts <= 1
              /\ MetaOf(stateJson).launch_free => chk'.attempts = 0
        /\ delivered'.launch_free <= 1 ]_vars

C17_Witness ==
    /\ chk.who = "launch" /\ chk.path = "skip_launched"
    /\ stateJson.meta.launch_free /\ delivered.launch_free = 1

\* C18: for a missing, an empty and an invalid state file, every loader
\* returns a fresh default document and the run continues: no run fails in
\* its loader.
C18_LoadersTolerateBadState ==
    chk.who # "none" => chk.path # "load_failed"

(***************************************************************************)
(* Properties of the feed bots' routing                                    *)
(***************************************************************************)
\* no destination id can be resolved for entry e: no <SHORTCODE>_THREAD_ID
\* secret, and (free bot) no cached id and thread creation disabled
Unroutable(e) ==
    CASE cfg.bot = "comments" ->
            e.host = HOST_TARGET /\ resolve_thread_id(e.novel) = None
      [] cfg.bot = "paid" ->
            \/ find_short_code_for_entry(e) = ""
            \/ _thread_id_for(find_short_code_for_entry(e)) = None
      [] OTHER ->
            /\ resolve_thread_id(e.novel) = None
            /\ state.threads[e.novel] = None /\ ~cfg.autocreate

C20_RoutingPriority ==
    [][ (pc = "loop" /\ cfg.bot = "free") =>
          LET n   == to_send[idx].novel
              env == resolve_thread_id(n)
              c   == state.threads[n]
              t   == Last(log').thread
          IN  /\ Last(log').attempts > 0 => t # None
              /\ env # None =>
                    /\ t \in {env, None}
                    /\ t = env => (state'.threads[n] = env /\ stateFile'.threads[n] = env)
              /\ (env = None /\ c # None) =>
                    /\ t \in {c, None}
                    /\ state'.threads = state.threads /\ stateFile' = stateFile
              /\ (env = None /\ c = None) =>
                    /\ t \in {CreatedTid, None}
                    /\ t = CreatedTid =>
                          /\ cfg.autocreate
                          /\ state'.threads[n] = CreatedTid
                          /\ stateFile'.threads[n] = CreatedTid
              /\ t = None => (state'.threads = state.threads /\ stateFile' = stateFile) ]_vars

C20_Witness ==
    /\ cfg.bot = "free" /\ log # <<>>
    /\ log[1].cached = CachedTid /\ log[1].thread = EnvTid /\ log[1].res = "sent"
    /\ state.threads["X"] = EnvTid /\ stateFile.threads["X"] = EnvTid

\* C21: in the free bot, a cached destination id found inaccessible when the
\* entry is delivered triggers re-resolution (creation of a new thread when
\* that is enabled) instead of the entry being dropped.
C21_InaccessibleCacheReresolves ==
    \A i \in 1..Len(log) :
        (/\ cfg.bot = "free" /\ cfg.autocreate
         /\ log[i].cached # None /\ "cache" \in Range(log[i].tried)
         /\ log[i].thread = None)
            => "create" \in Range(log[i].tried)

\* C22: every feed bot treats an entry as belonging to the target host
\* exactly when its host equals the target host compared case-insensitively:
\* the free and paid bots slice exactly those entries, and the comments bot
\* host-skips exactly the others.
C22_HostFilterCaseInsensitive ==
    RunStarted =>
        /\ cfg.bot \in {"free", "paid"}
              => Entries(cfg.bot, feed) = FilterSeq(feed, _is_mistmint)
        /\ cfg.bot = "comments"
              => \A i \in 1..Len(log) :
                    log[i].res = "skip_host_advance" <=> ~_is_mistmint(to_send[i])

\* C23: comments bot, feed a1 (Mistmint Haven, routable novel X) then a2
\* (OtherSite, novel Y), checkpoint None: the run makes one routed send (a1),
\* skips a2 without sending, and stores a1 when the send of a1 succeeded.
C23_CommentsScenario ==
    (/\ cfg.bot = "comments" /\ RunEnded /\ last = None
     /\ feed = <<Entry(1, <<"Mistmint Haven", "X">>), Entry(2, <<"OtherSite", "Y">>)>>)
        => /\ log # <<>> /\ log[1].guid = 1 /\ log[1].attempts >= 1
           /\ Len(log) = 2 => (log[2].guid = 2 /\ log[2].attempts = 0)
           /\ log[1].res = "sent" => (Len(log) = 2 /\ Stored = 1)

\* position of guid g in the entry list the running bot slices, 0 if absent
PositionOf(g) ==
    LET entries == Entries(cfg.bot, feed)
        at == { k \in 1..Len(entries) : Guid(entries[k]) = g }
    IN  IF g = None \/ at = {} THEN 0 ELSE CHOOSE k \in at : \A m \in at : k <= m

\* C24: the checkpoint is never rolled back: no step stores None over a
\* non-None checkpoint, and when the pre-run checkpoint is the id of an entry
\* of the sliced feed, a step of the run leaves the stored checkpoint alone
\* or stores the id of an entry strictly after it.
C24_CheckpointNeverRolledBack ==
    [][ /\ Stored # None => Stored' # None
        /\ (RunStarted /\ PositionOf(last) > 0)
              => \/ Stored' \in {Stored, last}
                 \/ PositionOf(Stored') > PositionOf(last) ]_vars

C24_Witness ==
    /\ pc = "done" /\ PositionOf(last) > 0
    /\ Stored # last /\ PositionOf(Stored) > PositionOf(last)
    /\ \E i \in 1..Len(log) : log[i].res = "sent"

\* C25: within a run the entries are handled one at a time in oldest-to-
\* newest feed order: each loop step handles exactly the entry at position
\* idx of to_send, after all earlier ones have been logged with their send
\* attempts finished, and to_send lists its entries in feed order.
C25_SequentialOldestFirst ==
    [][ /\ RunStarted' =>
              \A i \in 1..Len(to_send'), j \in 1..Len(to_send') :
                  (i < j /\ Guid(to_send'[i]) # None /\ Guid(to_send'[j]) # None)
                      => Guid(to_send'[i]) < Guid(to_send'[j])
        /\ pc = "loop" =>
              /\ idx = Len(log) + 1 /\ to_send' = to_send
              /\ log' = Append(log, Last(log'))
              /\ Last(log').guid = Guid(to_send[idx]) ]_vars

C25_Witness ==
    /\ pc = "done" /\ Len(to_send) = MaxFeed /\ Len(log) = MaxFeed
    /\ log[1].guid = 1 /\ log[1].res = "failed" /\ log[1].attempts > 1
    /\ log[MaxFeed].guid = MaxFeed /\ log[MaxFeed].res = "sent"

\* the checkpoint a run started now would load from disk, and its selection
LoadedCheckpoint ==
    LET st == IF cfg.bot = "free" THEN load_state_free(stateFile) ELSE load_state(stateFile)
        ck == st[FEED_KEY(cfg.bot)]
    IN  IF ck = Absent THEN None ELSE ck

SelectedNext == select_unseen(Entries(cfg.bot, feed), LoadedCheckpoint)

\* C26: whenever a run is terminated (a kill leaves the file as it is at that
\* point), every unseen entry whose send was not confirmed (not yet handled,
\* or attempted and failed) is selected again by the next run, and an entry
\* whose send was confirmed and whose checkpoint was persisted is not.
C26_KilledRunLosesNothing ==
    RunStarted =>
        /\ \A i \in 1..Len(to_send) :
              (i > Len(log) \/ (log[i].attempts > 0 /\ log[i].res # "sent"))
                  => \E j \in 1..Len(SelectedNext) : SelectedNext[j] = to_send[i]
        /\ \A i \in 1..Len(log) :
              (/\ log[i].res = "sent" /\ log[i].guid # None
               /\ PositionOf(LoadedCheckpoint) >= PositionOf(log[i].guid))
                  => \A j \in 1..Len(SelectedNext) : Guid(SelectedNext[j]) # log[i].guid

\* C27: a run that finds the bot credential (or channel id) missing ends
\* with a non-zero exit status; no script finishes with status 0 after
\* discovering that the credential is missing.
C27_MissingCredentialIsFatal ==
    (chk.who # "none" /\ chk.path \in {"exit_env", "skip_no_token"})
        => exit_status(chk.path) # 0

(***************************************************************************)
(* Pure functions: sanitize_shortcode_from_title and get_duration, each    *)
(* called once on an argument drawn from a bounded set.  A string is the   *)
(* sequence of its characters (titles) or of its words (durations).        *)
(***************************************************************************)
\* characters a title is made of: lower- and upper-case ASCII letters, a
\* digit, the underscore, a blank and a non-ASCII letter
TitleChars == {"a", "B", "7", "_", " ", "é"}

Titles == UNION { [1..n -> TitleChars] : n \in 0..MaxTitle }

\* str.upper(), character by character
Upper(c) ==
    CASE c = "a" -> "A"
      [] c = "é" -> "É"
      [] OTHER   -> c

\* the character class [A-Z0-9]
IsCodeChar(c) == c \in {"A", "B", "7"}

\* re.sub(r"[^A-Z0-9]+", "_", s): every maximal run of other characters
\* becomes one underscore
re_sub(s) ==
    LET R[i \in 0..Len(s)] ==
            IF i = 0 THEN <<>>
            ELSE IF IsCodeChar(s[i]) THEN Append(R[i-1], s[i])
            ELSE IF i > 1 /\ ~IsCodeChar(s[i-1]) THEN R[i-1]
            ELSE Append(R[i-1], "_")
    IN  R[Len(s)]

\* str.strip("_")
strip(s) ==
    LET keep  == { i \in 1..Len(s) : s[i] # "_" }
        first == CHOOSE i \in keep : \A j \in keep : i <= j
        last_ == CHOOSE i \in keep : \A j \in keep : j <= i
    IN  IF keep = {} THEN <<>> ELSE SubSeq(s, first, last_)

\* the derivation with .strip("_") left out
sanitize_shortcode_unstripped(title) ==
    re_sub([i \in 1..Len(title) |-> Upper(title[i])])

\* re.sub(r"[^A-Z0-9]+", "_", (title or "").upper()).strip("_")
sanitize_shortcode_from_title(title) ==
    strip(re_sub([i \in 1..Len(title) |-> Upper(title[i])]))

\* str(n) for a natural number
Digits == <<"0", "1", "2", "3", "4", "5", "6", "7", "8", "9">>
RECURSIVE NumStr(_)
NumStr(n) == IF n < 10 THEN Digits[n + 1] ELSE NumStr(n \div 10) \o Digits[(n % 10) + 1]

\* f"{'a' if n == 1 else n} year{'s' if n > 1 else ''}"
Amount(n, unit) ==
    <<IF n = 1 THEN "a" ELSE NumStr(n), IF n > 1 THEN unit \o "s" ELSE unit>>

\* f"{weeks} week{'s' if weeks != 1 else ''}"
Weeks(weeks) == <<NumStr(weeks), IF weeks # 1 THEN "weeks" ELSE "week">>

\* get_duration with every `if days > 0` branch removed
get_duration_whole(years, months, days) ==
    IF years > 0
    THEN IF months > 0 THEN Amount(years, "year") \o <<"and">> \o Amount(months, "month")
         ELSE Amount(years, "year")
    ELSE IF months > 0 THEN Amount(months, "month")
    ELSE IF days \div 7 > 0 THEN Weeks(days \div 7)
    ELSE <<"less", "than", "a", "week">>

\* completed_novel_checker.get_duration after relativedelta: years, months
\* and days are delta.years, delta.months and delta.days
get_duration(years, months, days) ==
    IF years > 0
    THEN IF months > 0
         THEN IF days > 0
              THEN <<"more", "than">> \o Amount(years, "year") \o <<"and">>
                       \o Amount(months, "month")
              ELSE Amount(years, "year") \o <<"and">> \o Amount(months, "month")
         ELSE IF days > 0 THEN <<"more", "than">> \o Amount(years, "year")
              ELSE Amount(years, "year")
    ELSE IF months > 0
    THEN IF days > 0 THEN <<"more", "than">> \o Amount(months, "month")
         ELSE Amount(months, "month")
    ELSE IF days \div 7 > 0
    THEN IF days % 7 > 0 THEN <<"more", "than">> \o Weeks(days \div 7)
         ELSE Weeks(days \div 7)
    ELSE IF days % 7 > 0 THEN <<"more", "than", "a", "week">>
    ELSE <<"less", "than", "a", "week">>

PureCalls ==
    { [fn |-> "sanitize_shortcode_from_title", title |-> t] : t \in Titles }
    \cup { [fn |-> "get_duration", years |-> y, months |-> m, days |-> d] :
             y \in 0..MaxYears, m \in 0..MaxMonths, d \in 0..MaxDays }

Returns(v, again, twice) ==
    [outcome |-> "returned", value |-> v, again |-> again, twice |-> twice]

InitPure ==
    /\ call \in PureCalls
    /\ result = NotCalled
    /\ FeedIdle /\ ArcIdle /\ StateIdle

\* the short code of the title, derived twice, and the code derived from
\* that code
CallSanitize ==
    /\ call.fn = "sanitize_shortcode_from_title" /\ result.outcome = "none"
    /\ result' = Returns(sanitize_shortcode_from_title(call.title),
                         sanitize_shortcode_from_title(call.title),
                         sanitize_shortcode_from_title(
                             sanitize_shortcode_from_title(call.title)))
    /\ UNCHANGED call

CallGetDuration ==
    /\ call.fn = "get_duration" /\ result.outcome = "none"
    /\ result' = Returns(get_duration(call.years, call.months, call.days),
                         get_duration(call.years, call.months, call.days), <<>>)
    /\ UNCHANGED call

NextPure ==
    \/ (CallSanitize /\ UNCHANGED <<feedVars, arcVars, chkVars>>)
    \/ (CallGetDuration /\ UNCHANGED <<feedVars, arcVars, chkVars>>)

SpecPure == InitPure /\ [][NextPure]_vars

(***************************************************************************)
(* Properties of the pure functions                                        *)
(***************************************************************************)
Sanitized == call.fn = "sanitize_shortcode_from_title" /\ result.outcome = "returned"
Measured  == call.fn = "get_duration" /\ result.outcome = "returned"

\* C28: a derived short code contains only characters of [A-Z0-9_], neither
\* starts nor ends with an underscore, has no two adjacent underscores, is
\* the same when derived again from the same title, and is unchanged by
\* deriving a code from it.
C28_ShortCodeShape ==
    Sanitized =>
        LET c == result.value IN
        /\ \A i \in 1..Len(c) : IsCodeChar(c[i]) \/ c[i] = "_"
        /\ c # <<>> => (c[1] # "_" /\ c[Len(c)] # "_")
        /\ \A i \in 1..(Len(c) - 1) : ~(c[i] = "_" /\ c[i + 1] = "_")
        /\ result.again = c
        /\ result.twice = c

C28_Witness ==
    /\ Sanitized /\ call.title = <<"_", "a", " ", "é">>
    /\ result.value = <<"A">>

\* the words after a leading "more than"
Stem(t) ==
    IF Len(t) >= 2 /\ t[1] = "more" /\ t[2] = "than" THEN SubSeq(t, 3, Len(t)) ELSE t

\* C29: for an elapsed time of at least one month, get_duration reports the
\* whole years and the whole months, prefixed with "more than" exactly when
\* the remainder days are non-zero; (1 year, 3 months, 10 days) gives
\* "more than a year and 3 months".
C29_DurationYearsMonths ==
    (Measured /\ (call.years > 0 \/ call.months > 0)) =>
        LET t == result.value
            y == IF call.years = 0 THEN <<>>
                 ELSE <<IF call.years = 1 THEN "a" ELSE NumStr(call.years),
                        IF call.years = 1 THEN "year" ELSE "years">>
            m == IF call.months = 0 THEN <<>>
                 ELSE <<IF call.months = 1 THEN "a" ELSE NumStr(call.months),
                        IF call.months = 1 THEN "month" ELSE "months">>
        IN  /\ (Stem(t) # t) <=> (call.days # 0)
            /\ Stem(t) = y \o (IF call.years > 0 /\ call.months > 0 THEN <<"and">> ELSE <<>>) \o m
            /\ (call.years = 1 /\ call.months = 3 /\ call.days = 10)
                  => t = <<"more", "than", "a", "year", "and", "3", "months">>

C29_Witness ==
    /\ Measured /\ call.years = 1 /\ call.months = 3 /\ call.days = 10
    /\ result.value = <<"more", "than", "a", "year", "and", "3", "months">>

\* C30: for zero years, zero months and fewer than 7 days get_duration
\* returns "less than a week"; a result "more than a week" or "more than N
\* weeks" is returned only when at least N whole weeks have elapsed.
C30_DurationWeeks ==
    (Measured /\ call.years = 0 /\ call.months = 0) =>
        LET t == result.value IN
        /\ call.days < 7 => t = <<"less", "than", "a", "week">>
        /\ \A n \in 1..MaxDays :
              (t = <<"more", "than">> \o Weeks(n)
                 \/ (n = 1 /\ t = <<"more", "than", "a", "week">>))
                  => call.days >= 7 * n

(***************************************************************************)
(* Properties of the checkpoint and of the state document                  *)
(***************************************************************************)
\* positions of the entries of this run whose send was confirmed
SentAt == { i \in 1..Len(log) : log[i].res = "sent" }

\* C31: after a run of the paid or the free bot, the checkpoint on disk is
\* the one the run started from or the id of the last entry the run sent
\* successfully; an entry that was skipped or whose send failed is never the
\* one that supplies the checkpoint.
C31_CheckpointIsLastSent ==
    (cfg.bot \in {"paid", "free"} /\ RunEnded) =>
        \/ LoadedCheckpoint = last
        \/ /\ SentAt # {}
           /\ LoadedCheckpoint = log[CHOOSE i \in SentAt : \A j \in SentAt : j <= i].guid

C31_Witness ==
    /\ cfg.bot = "paid" /\ pc = "done" /\ Len(log) = 2
    /\ log[1].res = "sent" /\ log[1].guid = 1 /\ log[2].res = "skip_route"
    /\ LoadedCheckpoint = 1 /\ last # 1

\* C32: in the comments bot an entry skipped for host mismatch or for a
\* missing thread id advances the cursor without a send: after a run in which
\* every unseen entry was skipped (the last one carrying an id) the persisted
\* checkpoint is the id of the last unseen entry and a second run over the
\* same feed selects nothing.
C32_CommentsSkipAdvances ==
    (/\ cfg.bot = "comments" /\ pc = "done" /\ to_send # <<>>
     /\ Len(log) = Len(to_send) /\ Guid(Last(to_send)) # None
     /\ \A i \in 1..Len(log) : log[i].res \in {"skip_host_advance", "skip_route_advance"})
        => /\ \A i \in 1..Len(log) : log[i].attempts = 0
           /\ Stored = Guid(Last(to_send))
           /\ SelectedNext = <<>>

C32_Witness ==
    /\ cfg.bot = "comments" /\ pc = "done" /\ Len(log) = 2
    /\ log[1].res = "skip_host_advance" /\ log[2].res = "skip_route_advance"
    /\ Stored = 2 /\ last = None /\ SelectedNext = <<>>

(***************************************************************************)
(* Two scripts on one state document: the comments bot and the paid bot    *)
(* both keep their checkpoint in state_rss.json.  Each run loads the whole *)
(* document when it starts and, when its cursor moved, writes the whole    *)
(* document it holds back at the end.  Here state and pc are per script.   *)
(***************************************************************************)
SharedBots == {"comments", "paid"}

\* state = load_state() at the start of main / send_new_paid_entries
LoadShared(b) ==
    /\ pc[b] = "idle"
    /\ state' = [state EXCEPT ![b] = load_state(stateFile)]
    /\ pc' = [pc EXCEPT ![b] = "running"]
    /\ UNCHANGED stateFile

\* if new_last and new_last != last: state[FEED_KEY] = new_last; save_state(state)
SaveShared(b) ==
    /\ pc[b] = "running"
    /\ \E g \in 1..MaxFeed :
         /\ g # state[b][FEED_KEY(b)]
         /\ state' = [state EXCEPT ![b][FEED_KEY(b)] = g]
         /\ stateFile' = state'[b]
    /\ pc' = [pc EXCEPT ![b] = "idle"]

\* the run ends with the cursor where it was: nothing is written
EndShared(b) ==
    /\ pc[b] = "running"
    /\ pc' = [pc EXCEPT ![b] = "idle"]
    /\ UNCHANGED <<state, stateFile>>

InitShared ==
    /\ \E c \in 0..MaxFeed, p \in 0..MaxFeed :
         stateFile = Doc(c, p, None, Absent, NoThreads)
    /\ state = [b \in SharedBots |-> stateFile]
    /\ pc = [b \in SharedBots |-> "idle"]
    /\ cfg = Cfg("comments", FALSE, FALSE) /\ feed = <<>>
    /\ to_send = <<>> /\ idx = 1 /\ last = None /\ new_last = None /\ log = <<>>
    /\ SendIdle /\ ArcIdle /\ StateIdle

NextShared ==
    \/ \E b \in SharedBots :
         LoadShared(b) /\ UNCHANGED <<cfg, feed, to_send, idx, last, new_last, log,
                                      sendVars, arcVars, chkVars>>
    \/ \E b \in SharedBots :
         SaveShared(b) /\ UNCHANGED <<cfg, feed, to_send, idx, last, new_last, log,
                                      sendVars, arcVars, chkVars>>
    \/ \E b \in SharedBots :
         EndShared(b) /\ UNCHANGED <<cfg, feed, to_send, idx, last, new_last, log,
                                     sendVars, arcVars, chkVars>>

SpecShared == InitShared /\ [][NextShared]_vars

\* C33: when two different scripts sharing a state document run interleaved,
\* a save never changes a slot other than the saving script's own: whatever
\* the other script persisted since the load is still there after the save.
C33_SaveKeepsOtherSlots ==
    [][ \A b \in SharedBots :
           (pc[b] = "running" /\ pc'[b] = "idle")
               => \A o \in SharedBots \ {b} :
                     stateFile'[FEED_KEY(o)] = stateFile[FEED_KEY(o)] ]_vars

\* the keys a bot may change in state_rss.json
OwnKeys(bot) ==
    IF bot = "free" THEN {FEED_KEY(bot), "threads"} ELSE {FEED_KEY(bot)}

\* C34: a feed-bot run executed alone on a valid state document changes at
\* most the bot's own checkpoint slot (and, in the free bot, the threads
\* cache): no step of the run changes the value of any other key on disk.
C34_FeedBotFrame ==
    [][ \A k \in DOMAIN stateFile :
           k \notin OwnKeys(cfg.bot) => stateFile'[k] = stateFile[k] ]_vars

C34_Witness ==
    /\ cfg.bot = "free" /\ pc = "done"
    /\ stateFile.free_last_guid = GoneGuid
    /\ stateFile.mistmint_free_last_guid = 1
    /\ stateFile.threads["X"] = EnvTid

(***************************************************************************)
(* Further properties of the arc tracker                                   *)
(***************************************************************************)
\* C35: every run of process_arc that changes unlocked or locked in memory
\* and in which no send fails writes the updated history to the history file
\* before it returns.
C35_ChangedHistoryIsSaved ==
    (/\ arcRun.path # "none" /\ arcRun.changed
     /\ arcRun.header # "failed" /\ ~arcRun.part_failed)
        => arcRun.saved

\* unlocked and locked are disjoint and free of duplicates, and no base text
\* appears under two different labels
WellFormed(h) ==
    LET all == h.unlocked \o h.locked IN
    /\ \A i \in 1..Len(all), j \in 1..Len(all) :
          i # j => (all[i] # all[j] /\ StripArcTag(all[i]) # StripArcTag(all[j]))

\* C36: process_arc preserves the well-formedness of the persisted history:
\* unlocked and locked stay disjoint and free of duplicates, and no base
\* text appears under two different labels.
C36_HistoryWellFormed ==
    [][ WellFormed(historyFile) => WellFormed(historyFile') ]_vars

\* C37: a run of process_arc on the feeds of the run before it, when that run
\* ended with a successful header send or was a bootstrap run, posts no
\* message and leaves the history file as it is.
C37_RerunIsIdle ==
    [][ arcRun'.rerun => (arcRun'.parts = <<>> /\ historyFile' = historyFile) ]_vars

\* C38: a run of the paid-chapter bot that logged in never ends up with
\* on_ready over and the client still connected: whatever the sends answer,
\* the retry after remediation included, the run gets to the checkpoint save
\* and bot.close().
C38_PaidRunReachesClose ==
    ~(cfg.bot = "paid" /\ pc = "hung")

\* C39: a run of a feed bot whose selection of unseen entries is empty returns
\* at once: it does not log in (on_ready, with its loop, final save and close,
\* is never entered), attempts no send, and leaves the state document as it is.
C39_EmptySelectionIsIdle ==
    [][ (pc = "idle" /\ pc' # "idle" /\ SelectedNext = <<>>)
            => /\ pc' = "done"
               /\ log' = <<>>
               /\ stateFile' = stateFile ]_vars

\* a run that found the checkpoint on the newest entry of a non-empty feed
C39_Witness ==
    /\ cfg.bot = "paid" /\ pc = "done" /\ to_send = <<>> /\ log = <<>>
    /\ Entries(cfg.bot, feed) # <<>>
    /\ Stored # None
    /\ Stored = Guid(Last(Entries(cfg.bot, feed)))

====
